---------------------------- MODULE Spec2Model ----------------------------
(***************************************************************************)
(* A model of peptide_file_generation.py (ibaqpy): the string helpers      *)
(* parse_uniprot_accession, remove_extension_file and get_study_accession, *)
(* and the command peptide_file_generation, statement by statement.        *)
(*                                                                         *)
(* A Python str is a sequence of one-character strings.  A pandas          *)
(* DataFrame is a record [cols, rows]: cols is the sequence of column      *)
(* names in order, rows the sequence of rows, each a function from the     *)
(* column names to the cell values.                                        *)
(***************************************************************************)
EXTENDS Integers, Sequences, FiniteSets, TLC

VARIABLES
    pc,          \* position in the command: the statement that runs next
    args,        \* which of --msstats, --sdrf, --output were given
    exit_status, \* the process's exit status; -1 while it runs
    stdout,      \* what was printed for the user: "", "help", "usage_error"
    opened,      \* the files opened so far
    msstats_file,\* the quantification table as pd.read_csv found it
    sdrf_file,   \* the metadata table as pd.read_csv found it
    bound,       \* the local names assigned so far
    msstats_df,
    sdrf_df,
    result_df,
    out_file,    \* the file at the output path: [exists, cols, rows]
    error,       \* the uncaught exception, "" when none
    fn_pc,       \* the helper-function harness: "input", then the calls made
    fn_in,       \* the argument of the helper
    fn_out,      \* its result
    fn_again     \* the result of the helper applied to its own result

vars == <<pc, args, exit_status, stdout, opened, msstats_file, sdrf_file, bound,
          msstats_df, sdrf_df, result_df, out_file, error,
          fn_pc, fn_in, fn_out, fn_again>>

pipeline_vars == <<pc, args, exit_status, stdout, opened, msstats_file, sdrf_file,
                   bound, msstats_df, sdrf_df, result_df, out_file, error>>

fn_vars == <<fn_pc, fn_in, fn_out, fn_again>>

---------------------------------------------------------------------------
(* Bounds of the model. *)

\* longest accession string enumerated character by character
MaxAccLen == 6
\* most pieces a file name is put together from
MaxPieces == 3
\* most rows of the quantification table
MaxQuantRows == 2
\* most rows of the metadata table
MaxSdrfRows == 2

---------------------------------------------------------------------------
(* Python str operations on sequences of characters. *)

SeqsUpTo(S, n) == UNION {[1..k -> S] : k \in 0..n}

RECURSIVE str_count(_, _)
\* s.count(c) for a single character c
str_count(s, c) ==
    IF s = <<>> THEN 0
    ELSE (IF Head(s) = c THEN 1 ELSE 0) + str_count(Tail(s), c)

RECURSIVE str_split(_, _)
\* s.split(c) for a single character c: always at least one field
str_split(s, c) ==
    IF \A i \in 1..Len(s) : s[i] # c THEN <<s>>
    ELSE LET k == CHOOSE i \in 1..Len(s) :
                      s[i] = c /\ \A j \in 1..(i - 1) : s[j] # c
         IN  <<SubSeq(s, 1, k - 1)>> \o str_split(SubSeq(s, k + 1, Len(s)), c)

RECURSIVE str_join(_, _)
\* c.join(parts)
str_join(parts, c) ==
    IF parts = <<>> THEN <<>>
    ELSE IF Len(parts) = 1 THEN parts[1]
    ELSE parts[1] \o <<c>> \o str_join(Tail(parts), c)

RECURSIVE str_remove(_, _)
\* s.replace(old, ''): one scan from the left, non-overlapping occurrences
str_remove(s, old) ==
    IF Len(s) < Len(old) THEN s
    ELSE IF SubSeq(s, 1, Len(old)) = old
         THEN str_remove(SubSeq(s, Len(old) + 1, Len(s)), old)
         ELSE <<Head(s)>> \o str_remove(Tail(s), old)

ExtRaw == <<".","r","a","w">>
ExtRAW == <<".","R","A","W">>
ExtMzML == <<".","m","z","M","L">>

---------------------------------------------------------------------------
(* The helpers. *)

\* the bug "split with maxsplit, any token with two or more pipes"
parse_token_maxsplit(accession) ==
    IF str_count(accession, "|") >= 2
    THEN LET parts == str_split(accession, "|")
         IN  str_join(SubSeq(parts, 3, Len(parts)), "|")
    ELSE accession

\* the bug "take the second field"
parse_token_second(accession) ==
    IF str_count(accession, "|") = 2
    THEN str_split(accession, "|")[2]
    ELSE accession

\* the body of the loop of parse_uniprot_accession
parse_token(accession) ==
    IF str_count(accession, "|") = 2
    THEN str_split(accession, "|")[3]
    ELSE accession

parse_uniprot_accession(uniprot_id) ==
    LET uniprot_list == str_split(uniprot_id, ";")
        result_uniprot_list ==
            [i \in 1..Len(uniprot_list) |-> parse_token(uniprot_list[i])]
    IN  str_join(result_uniprot_list, ";")

\* the bug "strip the extension at the end of the name only"
remove_extension_suffix(filename) ==
    LET ends(ext) == /\ Len(filename) >= Len(ext)
                     /\ SubSeq(filename, Len(filename) - Len(ext) + 1,
                               Len(filename)) = ext
        cut(ext) == SubSeq(filename, 1, Len(filename) - Len(ext))
    IN  IF ends(ExtRaw) THEN cut(ExtRaw)
        ELSE IF ends(ExtRAW) THEN cut(ExtRAW)
        ELSE IF ends(ExtMzML) THEN cut(ExtMzML)
        ELSE filename

remove_extension_file(filename) ==
    str_remove(str_remove(str_remove(filename, ExtRaw), ExtRAW), ExtMzML)

\* the bug "split from the right"
get_study_accession_rsplit(sample_id) ==
    LET parts == str_split(sample_id, "-")
    IN  str_join(SubSeq(parts, 1, IF Len(parts) > 1 THEN Len(parts) - 1 ELSE 1), "-")

get_study_accession(sample_id) == str_split(sample_id, "-")[1]

---------------------------------------------------------------------------
(* The helper harness: an argument is drawn, the helper is called. *)

ExampleOne == <<"t","r","|","C","O","N","T","A","M","I","N","A","N","T","_","Q","3","S","X","2","8","|","C","O","N","T","A","M","I","N","A","N","T","_","T","P","M","2","_","B","O","V","I","N">>
ExampleOneParsed == <<"C","O","N","T","A","M","I","N","A","N","T","_","T","P","M","2","_","B","O","V","I","N">>
ExampleTwo == <<"t","r","|","C","O","N","T","A","M","I","N","A","N","T","_","Q","3","S","X","2","8","|","C","O","N","T","A","M","I","N","A","N","T","_","T","P","M","2","_","B","O","V","I","N",";","s","p","|","P","1","2","3","4","5","|","F","O","O","_","H","U","M","A","N">>
ExampleTwoParsed == <<"C","O","N","T","A","M","I","N","A","N","T","_","T","P","M","2","_","B","O","V","I","N",";","F","O","O","_","H","U","M","A","N">>

AccessionAlphabet == {"a", "b", "|", ";"}

AccessionInputs ==
    SeqsUpTo(AccessionAlphabet, MaxAccLen) \cup {ExampleOne, ExampleTwo}

Sample1 == <<"s","a","m","p","l","e","1">>

\* whole extensions, and the halves a removal can splice together
FilenamePieces ==
    {<<"s">>, ExtRaw, ExtRAW, ExtMzML,
     <<".","r">>, <<"a","w">>, <<".","R">>, <<"A","W">>,
     <<".","m","z">>, <<"M","L">>}

RECURSIVE Flatten(_)
Flatten(ps) == IF ps = <<>> THEN <<>> ELSE Head(ps) \o Flatten(Tail(ps))

FilenameInputs ==
    {Flatten(ps) : ps \in SeqsUpTo(FilenamePieces, MaxPieces)}
    \cup {Sample1 \o ExtRaw, Sample1 \o ExtRAW, Sample1 \o ExtMzML}

EmptyFrame == [cols |-> <<>>, rows |-> <<>>]

\* the state of the command before anything has run, at statement p with
\* the options a
PipelineAt(p, a) ==
    /\ pc = p
    /\ args = a
    /\ exit_status = -1
    /\ stdout = ""
    /\ opened = {}
    /\ msstats_file = EmptyFrame
    /\ sdrf_file = EmptyFrame
    /\ bound = {}
    /\ msstats_df = EmptyFrame
    /\ sdrf_df = EmptyFrame
    /\ result_df = EmptyFrame
    /\ out_file = [exists |-> FALSE, cols |-> <<>>, rows |-> <<>>]
    /\ error = ""

\* the command has not been invoked
PipelineIdle ==
    PipelineAt("idle", [msstats |-> FALSE, sdrf |-> FALSE, output |-> FALSE])

InitAccession ==
    /\ PipelineIdle
    /\ fn_pc = "input"
    /\ fn_in \in AccessionInputs
    /\ fn_out = <<>>
    /\ fn_again = <<>>

CallParseAccession ==
    /\ fn_pc = "input"
    /\ fn_out' = parse_uniprot_accession(fn_in)
    /\ fn_pc' = "parsed"
    /\ UNCHANGED <<fn_in, fn_again>>
    /\ UNCHANGED pipeline_vars

CallParseAccessionAgain ==
    /\ fn_pc = "parsed"
    /\ fn_again' = parse_uniprot_accession(fn_out)
    /\ fn_pc' = "reparsed"
    /\ UNCHANGED <<fn_in, fn_out>>
    /\ UNCHANGED pipeline_vars

NextAccession == CallParseAccession \/ CallParseAccessionAgain

SpecAccession == InitAccession /\ [][NextAccession]_vars

InitFilename ==
    /\ PipelineIdle
    /\ fn_pc = "input"
    /\ fn_in \in FilenameInputs
    /\ fn_out = <<>>
    /\ fn_again = <<>>

CallRemoveExtension ==
    /\ fn_pc = "input"
    /\ fn_out' = remove_extension_file(fn_in)
    /\ fn_pc' = "normalized"
    /\ UNCHANGED <<fn_in, fn_again>>
    /\ UNCHANGED pipeline_vars

NextFilename == CallRemoveExtension

SpecFilename == InitFilename /\ [][NextFilename]_vars

---------------------------------------------------------------------------
(* Claims about the helpers. *)

Occurs(s, sub) ==
    \E i \in 1..(Len(s) - Len(sub) + 1) : SubSeq(s, i, i + Len(sub) - 1) = sub

RECURSIVE IsSubsequence(_, _)
\* a is b with some characters left out, the others in order
IsSubsequence(a, b) ==
    IF a = <<>> THEN TRUE
    ELSE IF b = <<>> THEN FALSE
    ELSE IF Head(a) = Head(b) THEN IsSubsequence(Tail(a), Tail(b))
    ELSE IsSubsequence(a, Tail(b))

\* C3: parse_uniprot_accession maps the ';'-separated tokens one by one: the
\* result has as many tokens as the argument, in the same order; a token with
\* exactly two '|' becomes what follows its last '|' (its third field), any
\* other token stays as it is; the two examples give the documented results.
C3_TokenwiseThirdField ==
    fn_pc = "parsed" =>
        LET toks == str_split(fn_in, ";")
            outs == str_split(fn_out, ";")
        IN  /\ Len(toks) = str_count(fn_in, ";") + 1
            /\ Len(outs) = Len(toks)
            /\ \A i \in 1..Len(toks) :
                  IF str_count(toks[i], "|") = 2
                  THEN /\ str_count(outs[i], "|") = 0
                       /\ \E k \in 1..Len(toks[i]) :
                              /\ toks[i][k] = "|"
                              /\ outs[i] = SubSeq(toks[i], k + 1, Len(toks[i]))
                  ELSE outs[i] = toks[i]
            /\ (fn_in = ExampleOne => fn_out = ExampleOneParsed)
            /\ (fn_in = ExampleTwo => fn_out = ExampleTwoParsed)

\* C3 witness: two tokens, one with exactly two '|' and one with three, parsed
C3_Witness ==
    /\ fn_pc = "parsed"
    /\ fn_in = <<"|", "|", ";", "|", "|", "|">>
    /\ fn_out = <<";", "|", "|", "|">>

\* C4: parsing the result of parse_uniprot_accession again changes nothing
C4_Idempotent == fn_pc = "reparsed" => fn_again = fn_out

\* C4 witness: an argument the first call shortens has been parsed twice
C4_Witness ==
    /\ fn_pc = "reparsed"
    /\ fn_in = <<"a", "|", "|", "b", ";">>
    /\ fn_out = <<"b", ";">>
    /\ fn_again = <<"b", ";">>

AnyExtensionIn(s) == Occurs(s, ExtRaw) \/ Occurs(s, ExtRAW) \/ Occurs(s, ExtMzML)

\* C5 as stated: the result holds none of '.raw', '.RAW', '.mzML', the other
\* characters keep their order, and the three examples give 'sample1'.
C5_NoExtensionLeft ==
    fn_pc = "normalized" =>
        /\ ~AnyExtensionIn(fn_out)
        /\ IsSubsequence(fn_out, fn_in)
        /\ (fn_in \in {Sample1 \o ExtRaw, Sample1 \o ExtRAW, Sample1 \o ExtMzML}
               => fn_out = Sample1)

\* C5 amended: the result is the argument with characters left out and the
\* others in order; an argument holding none of '.raw', '.RAW', '.mzML' comes
\* back as it is; one holding any of them, anywhere in the name, comes back
\* shorter; the three examples give 'sample1'.  (The result may still hold
\* one of the substrings, put together by the removals.)
C5_RemovesPresentOccurrences ==
    fn_pc = "normalized" =>
        /\ IsSubsequence(fn_out, fn_in)
        /\ (~AnyExtensionIn(fn_in) => fn_out = fn_in)
        /\ (AnyExtensionIn(fn_in) => Len(fn_out) < Len(fn_in))
        /\ (fn_in \in {Sample1 \o ExtRaw, Sample1 \o ExtRAW, Sample1 \o ExtMzML}
               => fn_out = Sample1)

\* C5 witness: an extension in the middle of the name has been removed
C5_Witness ==
    /\ fn_pc = "normalized"
    /\ fn_in = <<"s">> \o ExtMzML \o <<"s">>
    /\ fn_out = <<"s", "s">>

---------------------------------------------------------------------------
(* The column names of ibaqpy_commons, imported at line 9. *)

PROTEIN_NAME == "protein_accession"
PEPTIDE_SEQUENCE == "peptide_sequence"
PEPTIDE_CHARGE == "charge"
INTENSITY == "intensity"
REFERENCE == "reference"
CONDITION == "condition"
RUN == "run"
BIOREPLICATE == "bioreplicate"
FRACTION == "fraction"
FRAGMENT_ION == "fragment_ion"
ISOTOPE_LABEL_TYPE == "isotope_label_type"
SAMPLE_ID == "sample_id"
STUDY_ID == "study_id"

\* the columns kept, in this order, when the table has no fraction column
CanonicalCols ==
    <<PROTEIN_NAME, PEPTIDE_SEQUENCE, PEPTIDE_CHARGE, INTENSITY, REFERENCE,
      CONDITION, RUN, BIOREPLICATE, FRACTION, FRAGMENT_ION, ISOTOPE_LABEL_TYPE>>

\* the columns argument of msstats_df.rename
RenameMap ==
    [c \in {"ProteinName", "PeptideSequence", "PrecursorCharge", "Run",
            "Condition", "Intensity"} |->
        CASE c = "ProteinName" -> PROTEIN_NAME
          [] c = "PeptideSequence" -> PEPTIDE_SEQUENCE
          [] c = "PrecursorCharge" -> PEPTIDE_CHARGE
          [] c = "Run" -> RUN
          [] c = "Condition" -> CONDITION
          [] c = "Intensity" -> INTENSITY]

---------------------------------------------------------------------------
(* pandas operations on [cols, rows]. *)

\* a missing value: no str, so it is the one-element tuple of a non-character
NaN == <<"NaN">>

Range(s) == {s[i] : i \in DOMAIN s}

HasCol(df, c) == c \in Range(df.cols)

\* df[c] = vals, one value per row: a new column goes last
df_setcol(df, c, vals) ==
    LET cols == IF HasCol(df, c) THEN df.cols ELSE Append(df.cols, c)
    IN  [cols |-> cols,
         rows |-> [i \in 1..Len(df.rows) |->
                     [k \in Range(cols) |->
                         IF k = c THEN vals[i] ELSE df.rows[i][k]]]]

\* df.rename(columns=map): names not in the frame are ignored
df_rename(df, map) ==
    LET new(c) == IF c \in DOMAIN map THEN map[c] ELSE c
        cols == [i \in 1..Len(df.cols) |-> new(df.cols[i])]
        old(k) == CHOOSE c \in Range(df.cols) : new(c) = k
    IN  [cols |-> cols,
         rows |-> [i \in 1..Len(df.rows) |->
                     [k \in Range(cols) |-> df.rows[i][old(k)]]]]

\* df[cols]: the caller has checked that every name is a column
df_select(df, cols) ==
    [cols |-> cols,
     rows |-> [i \in 1..Len(df.rows) |-> [k \in Range(cols) |-> df.rows[i][k]]]]

\* one left row joined to the right row <<r>>, or to none (<<>>)
joined_row(l, lcols, r, rcols, on) ==
    [k \in Range(lcols) \cup (Range(rcols) \ {on}) |->
        IF k \in Range(lcols) THEN l[k]
        ELSE IF r = <<>> THEN NaN ELSE r[1][k]]

RECURSIVE merge_rows(_, _, _, _, _, _)
\* the rows of pd.merge: the left rows in order, each once per right row with
\* an equal key, those in the right table's order; keep_unmatched is
\* how='left', without it how='inner'
merge_rows(lrows, lcols, rrows, rcols, on, keep_unmatched) ==
    IF lrows = <<>> THEN <<>>
    ELSE LET l == Head(lrows)
             matches == SelectSeq(rrows, LAMBDA r : r[on] = l[on])
             here == IF matches = <<>>
                     THEN IF keep_unmatched
                          THEN <<joined_row(l, lcols, <<>>, rcols, on)>>
                          ELSE <<>>
                     ELSE [j \in 1..Len(matches) |->
                             joined_row(l, lcols, <<matches[j]>>, rcols, on)]
         IN  here \o merge_rows(Tail(lrows), lcols, rrows, rcols, on, keep_unmatched)

\* the bug how='inner'
df_merge_inner(left, right, on) ==
    [cols |-> left.cols \o SelectSeq(right.cols, LAMBDA c : c # on),
     rows |-> merge_rows(left.rows, left.cols, right.rows, right.cols, on, FALSE)]

\* pd.merge(left, right, how='left', on=[on])
df_merge_left(left, right, on) ==
    [cols |-> left.cols \o SelectSeq(right.cols, LAMBDA c : c # on),
     rows |-> merge_rows(left.rows, left.cols, right.rows, right.cols, on, TRUE)]

\* the bug "restrict to the canonical columns in both branches"
fraction_step_always(df) ==
    LET with == IF HasCol(df, FRACTION) THEN df
                ELSE df_setcol(df, FRACTION, [i \in 1..Len(df.rows) |-> 1])
    IN  df_select(with, SelectSeq(CanonicalCols, LAMBDA c : HasCol(with, c)))

\* lines 140-144, once the columns selected are known to be there
fraction_step(df) ==
    IF ~HasCol(df, FRACTION)
    THEN df_select(df_setcol(df, FRACTION, [i \in 1..Len(df.rows) |-> 1]),
                   CanonicalCols)
    ELSE df

---------------------------------------------------------------------------
(* The input files the model draws. *)

Run1Raw == <<"r","u","n","1",".","r","a","w">>
Run1MzML == <<"r","u","n","1",".","m","z","M","L">>
Run2Raw == <<"r","u","n","2",".","r","a","w">>
Run2RAW == <<"r","u","n","2",".","R","A","W">>
Run3Raw == <<"r","u","n","3",".","r","a","w">>
Prot1 == <<"s","p","|","P","1","|","N","1">>
Prot2 == <<"P","2",";","t","r","|","Q","|","N","2">>
Prot3 == <<"X","|","Y">>
Proj123S1 == <<"P","R","O","J","1","2","3","-","S","1">>
Proj123 == <<"P","R","O","J","1","2","3">>
NoDash == <<"N","O","D","A","S","H">>
MultiDash == <<"A","-","B","-","C">>

\* the kinds of quantification row: run1 and run2 are in the metadata kinds,
\* run3 is not
QuantRefs == <<Run1Raw, Run2Raw, Run3Raw>>
QuantProteins == <<Prot1, Prot2, Prot3>>

\* the header of the quantification file, not in canonical order, with a
\* column the command has no name for
QuantFileCols ==
    <<"Run", "ProteinName", "PeptideSequence", "PrecursorCharge", FRAGMENT_ION,
      ISOTOPE_LABEL_TYPE, "Condition", BIOREPLICATE, "Intensity", REFERENCE,
      "RetentionTime", FRACTION>>

\* the columns the command needs from the quantification file
QuantRequired ==
    {"ProteinName", "PeptideSequence", "PrecursorCharge", "Run", "Condition",
     "Intensity", REFERENCE}

\* a file lacks at most one of these
QuantLeaveOut == {"none", BIOREPLICATE} \cup QuantRequired

QuantCell(kind, c) ==
    IF c = REFERENCE THEN QuantRefs[kind]
    ELSE IF c = "ProteinName" THEN QuantProteins[kind]
    ELSE IF c = FRACTION THEN 2
    ELSE c

QuantTable(leave_out, with_fraction, kinds) ==
    LET cols == SelectSeq(QuantFileCols,
                          LAMBDA c : c # leave_out /\ (c = FRACTION => with_fraction))
    IN  [cols |-> cols,
         rows |-> [i \in 1..Len(kinds) |->
                     [c \in Range(cols) |-> QuantCell(kinds[i], c)]]]

QuantTables ==
    {QuantTable(lo, wf, ks) :
        lo \in QuantLeaveOut, wf \in BOOLEAN,
        ks \in SeqsUpTo(1..Len(QuantRefs), MaxQuantRows)}

\* the kinds of metadata row: two files of run1, one of run2
SdrfFiles == <<Run1Raw, Run1MzML, Run2RAW>>
SdrfSamples == <<Proj123S1, NoDash, MultiDash>>

SdrfFileCols == <<"source name", "characteristics[organism]", "comment[data file]">>

SdrfRequired == {"comment[data file]", "source name"}

SdrfCell(kind, c) ==
    IF c = "comment[data file]" THEN SdrfFiles[kind]
    ELSE IF c = "source name" THEN SdrfSamples[kind]
    ELSE c

SdrfTable(leave_out, kinds) ==
    LET cols == SelectSeq(SdrfFileCols, LAMBDA c : c # leave_out)
    IN  [cols |-> cols,
         rows |-> [i \in 1..Len(kinds) |->
                     [c \in Range(cols) |-> SdrfCell(kinds[i], c)]]]

SdrfTables ==
    {SdrfTable(lo, ks) :
        lo \in {"none"} \cup SdrfRequired,
        ks \in SeqsUpTo(1..Len(SdrfFiles), MaxSdrfRows)}

---------------------------------------------------------------------------
(* The command peptide_file_generation, one action per statement. *)

\* the statements in the order the command runs them
ProgramOrder ==
    <<"cli", "check_args", "read_msstats", "normalize_reference", "rename",
      "parse_accession", "read_sdrf", "sdrf_reference", "fraction", "merge",
      "rename_sample", "study", "to_csv", "done">>

\* the bug "write the file before study_id is derived"
WriteFirstOrder ==
    <<"cli", "check_args", "read_msstats", "normalize_reference", "rename",
      "parse_accession", "read_sdrf", "sdrf_reference", "fraction", "merge",
      "rename_sample", "to_csv", "study", "done">>

successor(order, p) == order[(CHOOSE i \in 1..Len(order) : order[i] = p) + 1]

next_statement_write_first(p) == successor(WriteFirstOrder, p)

\* the statement that follows p
next_statement(p) == successor(ProgramOrder, p)

Running(p) == pc = p /\ exit_status = -1

\* the statement completes; falling off the end of the command is exit 0
Advance ==
    /\ pc' = next_statement(pc)
    /\ exit_status' = IF next_statement(pc) = "done" THEN 0 ELSE -1
    /\ error' = error

\* the statement raises; nothing catches it and the interpreter exits with 1
Raises(err) ==
    /\ pc' = pc
    /\ exit_status' = 1
    /\ error' = err

Init ==
    /\ \E a \in [msstats : BOOLEAN, sdrf : BOOLEAN, output : BOOLEAN] :
           PipelineAt("cli", a)
    /\ fn_pc = "idle"
    /\ fn_in = <<>>
    /\ fn_out = <<>>
    /\ fn_again = <<>>

\* lines 100-105: click parses the options; --msstats and --sdrf are declared
\* required=True, so click ends the process with a usage error and status 2
\* when one is missing, before the function is called
ClickMissingOption ==
    /\ Running("cli")
    /\ ~args.msstats \/ ~args.sdrf
    /\ pc' = pc
    /\ exit_status' = 2
    /\ stdout' = "usage_error"
    /\ UNCHANGED <<args, opened, msstats_file, sdrf_file, bound, msstats_df,
                   sdrf_df, result_df, out_file, error>>
    /\ UNCHANGED fn_vars

ClickInvoke ==
    /\ Running("cli")
    /\ args.msstats /\ args.sdrf
    /\ Advance
    /\ UNCHANGED <<args, stdout, opened, msstats_file, sdrf_file, bound,
                   msstats_df, sdrf_df, result_df, out_file>>
    /\ UNCHANGED fn_vars

\* the condition of line 116
any_path_is_none(a) == ~a.msstats \/ ~a.sdrf \/ ~a.output

\* lines 116-118: print_help_msg, exit(1)
UsageExit ==
    /\ Running("check_args")
    /\ any_path_is_none(args)
    /\ pc' = pc
    /\ exit_status' = 1
    /\ stdout' = "help"
    /\ UNCHANGED <<args, opened, msstats_file, sdrf_file, bound, msstats_df,
                   sdrf_df, result_df, out_file, error>>
    /\ UNCHANGED fn_vars

UsageOk ==
    /\ Running("check_args")
    /\ ~any_path_is_none(args)
    /\ Advance
    /\ UNCHANGED <<args, stdout, opened, msstats_file, sdrf_file, bound,
                   msstats_df, sdrf_df, result_df, out_file>>
    /\ UNCHANGED fn_vars

\* line 123: pd.read_csv(msstats, sep=',', compression=...) gives a table
ReadMsstats ==
    /\ Running("read_msstats")
    /\ \E t \in QuantTables :
           /\ msstats_file' = t
           /\ msstats_df' = t
    /\ opened' = opened \cup {"msstats"}
    /\ bound' = bound \cup {"msstats_df"}
    /\ Advance
    /\ UNCHANGED <<args, stdout, sdrf_file, sdrf_df, result_df, out_file>>
    /\ UNCHANGED fn_vars

\* line 123: the file is missing, not in the stated compression, or malformed
ReadMsstatsFails ==
    /\ Running("read_msstats")
    /\ \E o \in {opened, opened \cup {"msstats"}} : opened' = o
    /\ Raises("ReadError")
    /\ UNCHANGED <<args, stdout, msstats_file, sdrf_file, bound, msstats_df,
                   sdrf_df, result_df, out_file>>
    /\ UNCHANGED fn_vars

\* line 124
NormalizeReference ==
    /\ Running("normalize_reference")
    /\ IF HasCol(msstats_df, REFERENCE)
       THEN /\ msstats_df' = df_setcol(msstats_df, REFERENCE,
                                 [i \in 1..Len(msstats_df.rows) |->
                                     remove_extension_file(
                                         msstats_df.rows[i][REFERENCE])])
            /\ Advance
       ELSE /\ Raises("KeyError")
            /\ UNCHANGED msstats_df
    /\ UNCHANGED <<args, stdout, opened, msstats_file, sdrf_file, bound,
                   sdrf_df, result_df, out_file>>
    /\ UNCHANGED fn_vars

\* lines 126-129
RenameColumns ==
    /\ Running("rename")
    /\ msstats_df' = df_rename(msstats_df, RenameMap)
    /\ Advance
    /\ UNCHANGED <<args, stdout, opened, msstats_file, sdrf_file, bound,
                   sdrf_df, result_df, out_file>>
    /\ UNCHANGED fn_vars

\* line 133
ParseAccessions ==
    /\ Running("parse_accession")
    /\ IF HasCol(msstats_df, PROTEIN_NAME)
       THEN /\ msstats_df' = df_setcol(msstats_df, PROTEIN_NAME,
                                 [i \in 1..Len(msstats_df.rows) |->
                                     parse_uniprot_accession(
                                         msstats_df.rows[i][PROTEIN_NAME])])
            /\ Advance
       ELSE /\ Raises("KeyError")
            /\ UNCHANGED msstats_df
    /\ UNCHANGED <<args, stdout, opened, msstats_file, sdrf_file, bound,
                   sdrf_df, result_df, out_file>>
    /\ UNCHANGED fn_vars

\* line 136: pd.read_csv(sdrf, sep='\t', compression=...) gives a table
ReadSdrf ==
    /\ Running("read_sdrf")
    /\ \E t \in SdrfTables :
           /\ sdrf_file' = t
           /\ sdrf_df' = t
    /\ opened' = opened \cup {"sdrf"}
    /\ bound' = bound \cup {"sdrf_df"}
    /\ Advance
    /\ UNCHANGED <<args, stdout, msstats_file, msstats_df, result_df, out_file>>
    /\ UNCHANGED fn_vars

ReadSdrfFails ==
    /\ Running("read_sdrf")
    /\ \E o \in {opened, opened \cup {"sdrf"}} : opened' = o
    /\ Raises("ReadError")
    /\ UNCHANGED <<args, stdout, msstats_file, sdrf_file, bound, msstats_df,
                   sdrf_df, result_df, out_file>>
    /\ UNCHANGED fn_vars

\* line 137
SdrfReference ==
    /\ Running("sdrf_reference")
    /\ IF HasCol(sdrf_df, "comment[data file]")
       THEN /\ sdrf_df' = df_setcol(sdrf_df, REFERENCE,
                              [i \in 1..Len(sdrf_df.rows) |->
                                  remove_extension_file(
                                      sdrf_df.rows[i]["comment[data file]"])])
            /\ Advance
       ELSE /\ Raises("KeyError")
            /\ UNCHANGED sdrf_df
    /\ UNCHANGED <<args, stdout, opened, msstats_file, sdrf_file, bound,
                   msstats_df, result_df, out_file>>
    /\ UNCHANGED fn_vars

\* lines 140-144: the selection raises when a canonical column is not there
FractionStep ==
    /\ Running("fraction")
    /\ IF /\ ~HasCol(msstats_df, FRACTION)
          /\ \E c \in Range(CanonicalCols) \ {FRACTION} : ~HasCol(msstats_df, c)
       THEN /\ Raises("KeyError")
            /\ UNCHANGED msstats_df
       ELSE /\ msstats_df' = fraction_step(msstats_df)
            /\ Advance
    /\ UNCHANGED <<args, stdout, opened, msstats_file, sdrf_file, bound,
                   sdrf_df, result_df, out_file>>
    /\ UNCHANGED fn_vars

\* line 147
Merge ==
    /\ Running("merge")
    /\ IF HasCol(sdrf_df, "source name")
       THEN /\ result_df' = df_merge_left(msstats_df,
                                df_select(sdrf_df, <<"source name", REFERENCE>>),
                                REFERENCE)
            /\ bound' = bound \cup {"result_df"}
            /\ Advance
       ELSE /\ Raises("KeyError")
            /\ UNCHANGED <<result_df, bound>>
    /\ UNCHANGED <<args, stdout, opened, msstats_file, sdrf_file, msstats_df,
                   sdrf_df, out_file>>
    /\ UNCHANGED fn_vars

\* line 148
RenameSample ==
    /\ Running("rename_sample")
    /\ result_df' = df_rename(result_df, [c \in {"source name"} |-> SAMPLE_ID])
    /\ Advance
    /\ UNCHANGED <<args, stdout, opened, msstats_file, sdrf_file, bound,
                   msstats_df, sdrf_df, out_file>>
    /\ UNCHANGED fn_vars

\* line 150: Series.apply calls get_study_accession on every value, a missing
\* one included, and a float has no split
DeriveStudy ==
    /\ Running("study")
    /\ IF \E i \in 1..Len(result_df.rows) : result_df.rows[i][SAMPLE_ID] = NaN
       THEN /\ Raises("AttributeError")
            /\ UNCHANGED result_df
       ELSE /\ result_df' = df_setcol(result_df, STUDY_ID,
                                [i \in 1..Len(result_df.rows) |->
                                    get_study_accession(
                                        result_df.rows[i][SAMPLE_ID])])
            /\ Advance
    /\ UNCHANGED <<args, stdout, opened, msstats_file, sdrf_file, bound,
                   msstats_df, sdrf_df, out_file>>
    /\ UNCHANGED fn_vars

\* line 152: to_csv(output, index=False, sep=','): a header line of the column
\* names and a line per row; out_file holds the values the lines are made of
WriteOutput ==
    /\ Running("to_csv")
    /\ out_file' = [exists |-> TRUE, cols |-> result_df.cols,
                    rows |-> result_df.rows]
    /\ opened' = opened \cup {"output"}
    /\ Advance
    /\ UNCHANGED <<args, stdout, msstats_file, sdrf_file, bound, msstats_df,
                   sdrf_df, result_df>>
    /\ UNCHANGED fn_vars

\* line 152: the path cannot be written; the file may have been created
WriteOutputFails ==
    /\ Running("to_csv")
    /\ \E created \in BOOLEAN :
           /\ out_file' = [exists |-> created, cols |-> <<>>, rows |-> <<>>]
           /\ opened' = IF created THEN opened \cup {"output"} ELSE opened
    /\ Raises("OSError")
    /\ UNCHANGED <<args, stdout, msstats_file, sdrf_file, bound, msstats_df,
                   sdrf_df, result_df>>
    /\ UNCHANGED fn_vars

Next ==
    \/ ClickMissingOption
    \/ ClickInvoke
    \/ UsageExit
    \/ UsageOk
    \/ ReadMsstats
    \/ ReadMsstatsFails
    \/ NormalizeReference
    \/ RenameColumns
    \/ ParseAccessions
    \/ ReadSdrf
    \/ ReadSdrfFails
    \/ SdrfReference
    \/ FractionStep
    \/ Merge
    \/ RenameSample
    \/ DeriveStudy
    \/ WriteOutput
    \/ WriteOutputFails

Spec == Init /\ [][Next]_vars

---------------------------------------------------------------------------
(* Claims about the command. *)

\* the column of result_df that holds the sample: 'source name' until line 148
SampleCol == IF HasCol(result_df, SAMPLE_ID) THEN SAMPLE_ID ELSE "source name"

Merged == "result_df" \in bound

\* the part of a merged row that came from the quantification table
LeftPart(m) == [k \in Range(msstats_df.cols) |-> m[k]]

Matching(l, R) == {j \in 1..Len(R) : R[j][REFERENCE] = l[REFERENCE]}

RECURSIVE ExpectedRows(_, _)
\* one row per quantification row and matching metadata row, one for a
\* quantification row that matches none
ExpectedRows(L, R) ==
    IF L = <<>> THEN 0
    ELSE (IF Matching(Head(L), R) = {} THEN 1 ELSE Cardinality(Matching(Head(L), R)))
         + ExpectedRows(Tail(L), R)

\* C1 as stated: once the merge has left a row with a null sample_id, the
\* derivation of study_id does not fail, the row's study_id is null too, and
\* the finished run has written that row.
C1_NullSamplePropagates ==
    (Merged /\ \E i \in 1..Len(result_df.rows) : result_df.rows[i][SampleCol] = NaN)
    => /\ ~(pc = "study" /\ exit_status # -1)
       /\ (HasCol(result_df, STUDY_ID) =>
              \A i \in 1..Len(result_df.rows) :
                  result_df.rows[i][SAMPLE_ID] = NaN
                      => result_df.rows[i][STUDY_ID] = NaN)
       /\ (pc = "done" => out_file.exists /\ out_file.rows = result_df.rows)

\* C2: the merged table is the left outer join of the quantification rows and
\* the metadata rows on the normalized reference: every quantification row is
\* there once for each metadata row with an equal reference, carrying that
\* row's sample, and once with a null sample when no metadata row has its
\* reference; there are no other rows; so with unique metadata references
\* the merged table has as many rows as the quantification table.
C2_LeftJoin ==
    Merged =>
        LET L == msstats_df.rows
            R == sdrf_df.rows
            M == result_df.rows
            copies(l) == Cardinality({k \in 1..Len(L) : L[k] = l})
            found(l, v) == Cardinality({k \in 1..Len(M) :
                               LeftPart(M[k]) = l /\ M[k][SampleCol] = v})
            due(l, v) == IF v = NaN
                         THEN (IF Matching(l, R) = {} THEN 1 ELSE 0)
                         ELSE Cardinality({j \in Matching(l, R) :
                                              R[j]["source name"] = v})
        IN  /\ Len(M) = ExpectedRows(L, R)
            /\ \A i \in 1..Len(L) : \A v \in Range(SdrfSamples) \cup {NaN} :
                   found(L[i], v) = copies(L[i]) * due(L[i], v)
            /\ \A k \in 1..Len(M) : \E i \in 1..Len(L) : LeftPart(M[k]) = L[i]
            /\ ((\A i, j \in 1..Len(R) :
                    R[i][REFERENCE] = R[j][REFERENCE] => i = j)
                   => Len(M) = Len(L))

\* C2 witness: two quantification rows, one matching two metadata rows and one
\* matching none, have been merged into three rows
C2_Witness ==
    /\ Merged
    /\ Len(msstats_df.rows) = 2
    /\ Len(sdrf_df.rows) = 2
    /\ Len(result_df.rows) = 3
    /\ result_df.rows[1][SampleCol] = Proj123S1
    /\ result_df.rows[2][SampleCol] = NoDash
    /\ result_df.rows[3][SampleCol] = NaN

\* C6 as stated: with any of the three paths unset the command ends with
\* status 1 after printing its help, with no file opened or created.
C6_UnsetPathHelpExit1 ==
    any_path_is_none(args) =>
        /\ pc \in {"cli", "check_args"}
        /\ opened = {}
        /\ ~out_file.exists
        /\ (exit_status # -1 => exit_status = 1 /\ stdout = "help")

\* C7 as stated: when the quantification file lacks one of its required
\* columns, or the metadata file one of its two, the run does not complete and
\* writes no output, with or without a fraction column.
C7_MissingColumnFails ==
    (\/ "msstats_df" \in bound /\ \E c \in QuantRequired : ~HasCol(msstats_file, c)
     \/ "sdrf_df" \in bound /\ \E c \in SdrfRequired : ~HasCol(sdrf_file, c))
    => pc # "done" /\ ~out_file.exists

\* C8: the output file exists only when the run has reached to_csv: both
\* inputs are loaded, the merge is done and every row has its study_id; a run
\* that ended at an earlier statement has not created or opened it.
C8_OutputAfterDerivation ==
    /\ (out_file.exists \/ "output" \in opened) =>
          /\ pc \in {"to_csv", "done"}
          /\ {"msstats", "sdrf"} \subseteq opened
          /\ {"msstats_df", "sdrf_df", "result_df"} \subseteq bound
          /\ Len(result_df.rows) = ExpectedRows(msstats_df.rows, sdrf_df.rows)
          /\ HasCol(result_df, SAMPLE_ID) /\ HasCol(result_df, STUDY_ID)
          /\ \A i \in 1..Len(result_df.rows) :
                 result_df.rows[i][STUDY_ID] =
                     get_study_accession(result_df.rows[i][SAMPLE_ID])
    /\ (exit_status \notin {-1, 0} /\ pc # "to_csv") => ~out_file.exists
    /\ (pc = "done" => out_file.exists /\ out_file.rows = result_df.rows)

\* C8 witness: a run has finished and written a table of two rows
C8_Witness ==
    /\ pc = "done"
    /\ out_file.exists
    /\ Len(out_file.rows) = 2
    /\ out_file.cols = result_df.cols

\* C9: in every merged row with a sample_id, study_id has no '-', is the start
\* of sample_id, and ends where sample_id has its first '-' or where it ends:
\* 'PROJ123-S1' gives 'PROJ123', 'NODASH' gives 'NODASH'.
C9_StudyIsPartBeforeDash ==
    (Merged /\ HasCol(result_df, STUDY_ID)) =>
        \A i \in 1..Len(result_df.rows) :
            LET s == result_df.rows[i][SAMPLE_ID]
                t == result_df.rows[i][STUDY_ID]
            IN  s # NaN =>
                  /\ \A j \in 1..Len(t) : t[j] # "-"
                  /\ Len(t) <= Len(s)
                  /\ SubSeq(s, 1, Len(t)) = t
                  /\ (Len(t) = Len(s) \/ s[Len(t) + 1] = "-")
                  /\ (s = Proj123S1 => t = Proj123)
                  /\ (s = NoDash => t = NoDash)

\* C9 witness: a finished run holds a row whose sample_id has two '-'
C9_Witness ==
    /\ pc = "done"
    /\ \E i \in 1..Len(result_df.rows) :
           /\ result_df.rows[i][SAMPLE_ID] = MultiDash
           /\ result_df.rows[i][STUDY_ID] = <<"A">>
    /\ \E i \in 1..Len(result_df.rows) :
           /\ result_df.rows[i][SAMPLE_ID] = Proj123S1
           /\ result_df.rows[i][STUDY_ID] = Proj123

\* C10: when lines 140-144 complete on a table with no fraction column, the
\* table has exactly the canonical columns in canonical order, fraction is 1
\* in every row and the other canonical cells are as before; on a table with
\* a fraction column the table, extra columns and order included, is as
\* before.
C10_FractionStepFrame ==
    [][(pc = "fraction" /\ pc' # "fraction") =>
          IF ~HasCol(msstats_df, "fraction")
          THEN /\ msstats_df'.cols =
                     <<"protein_accession", "peptide_sequence", "charge",
                       "intensity", "reference", "condition", "run",
                       "bioreplicate", "fraction", "fragment_ion",
                       "isotope_label_type">>
               /\ Len(msstats_df'.rows) = Len(msstats_df.rows)
               /\ \A i \in 1..Len(msstats_df.rows) :
                      /\ DOMAIN msstats_df'.rows[i] = Range(msstats_df'.cols)
                      /\ msstats_df'.rows[i]["fraction"] = 1
                      /\ \A c \in Range(msstats_df'.cols) \ {"fraction"} :
                             msstats_df'.rows[i][c] = msstats_df.rows[i][c]
          ELSE msstats_df' = msstats_df]_vars

\* C10 witness: a table read without a fraction column, with the extra
\* column, has passed lines 140-144
C10_Witness ==
    /\ pc = "merge"
    /\ ~HasCol(msstats_file, FRACTION)
    /\ HasCol(msstats_file, "RetentionTime")
    /\ Len(msstats_df.rows) = 2
    /\ msstats_df.cols = CanonicalCols
    /\ msstats_df.rows[1][FRACTION] = 1

=============================================================================
